---------------------------- MODULE Spec2Model ----------------------------
(***************************************************************************)
(* A model of the Jellyfish topology constructor (src/jellyfish.py).       *)
(*                                                                         *)
(* One behaviour is one call JellyfishTopo(seed, switches, nodes,          *)
(* ports_per_switch, hosts_per_switch): addHosts, the Phase 1 random       *)
(* pairing loop, the Phase 2 degree-repair loop and the final addLink      *)
(* loop.  The values random.choice returns are the nondeterministic        *)
(* inputs of the actions.                                                  *)
(*                                                                         *)
(* Node names are modelled as pairs <<letter, index>>: "s%d" % 3 is        *)
(* <<"s", 3>>.  The Python list added_links is modelled as a bag of        *)
(* ordered pairs: the code reads it only through `in`, a count of the      *)
(* elements that hold a switch, random.choice (any element), remove (one   *)
(* copy of an element) and the final loop (every element, with its         *)
(* multiplicity), none of which depends on the order of the list.          *)
(***************************************************************************)
EXTENDS Integers, Sequences, FiniteSets, Bags, TLC

\* Bounds on the parameters of the constructor call.
MaxSwitches == 3
MaxNodes == 3
MaxPorts == 4
MaxHps == 2
\* The bound on the switches parameter in the wider specification SpecWide.
WideSwitches == 4
\* The bound on the nodes parameter in the identifier specification IdSpec.
IdNodes == 256

\* JellyfishNodeID: host_id 255 marks a switch (src/jellyfish.py:31, 47, 257).
SwitchSentinel == 255

VARIABLES
  pc,                \* position in __init__ / create_topology
  switches,          \* parameter: number of switches
  nodes,             \* parameter: number of hosts
  ports_per_switch,  \* parameter
  hosts_per_switch,  \* parameter
  g_nodes,           \* the graph's node names (self.g)
  g_isSwitch,        \* the node names added with isSwitch=True
  g_links,           \* the graph's edges: a bag of <<name, name>>
  switch_list,       \* the candidate list of create_topology
  added_links,       \* the working edge collection of create_topology
  idx,               \* Phase 2: position of `for switch in switch_list`
  completed          \* Phase 2: the flag of the current pass

vars == <<pc, switches, nodes, ports_per_switch, hosts_per_switch,
          g_nodes, g_isSwitch, g_links, switch_list, added_links,
          idx, completed>>

params == <<switches, nodes, ports_per_switch, hosts_per_switch>>
graph == <<g_nodes, g_isSwitch, g_links>>

-----------------------------------------------------------------------------
\* JellyfishNodeID(switch_id, host_id).name_str(): __str__.
NameStr(switch_id, host_id) ==
  IF host_id = SwitchSentinel THEN <<"s", switch_id>> ELSE <<"h", host_id>>

\* JellyfishNodeID(switch_id, host_id): lines 37-40.
NodeID(switch_id, host_id) ==
  [switch_id |-> switch_id, host_id |-> host_id,
   dpid |-> switch_id * 256 + host_id]

\* A variant of FromName whose 's' branch takes host_id from the name, as
\* the 'h' branch does, in place of the sentinel.
FromNameNoSentinel(name) ==
  [switch_id |-> name[2], host_id |-> name[2],
   dpid |-> name[2] * 256 + name[2]]

\* JellyfishNodeID(name=...): lines 25-32.  int(name[1:]) reads the index
\* the name holds.
FromName(name) ==
  IF name[1] = "h"
  THEN [switch_id |-> name[2], host_id |-> name[2],
        dpid |-> name[2] * 256 + name[2]]
  ELSE [switch_id |-> name[2], host_id |-> SwitchSentinel,
        dpid |-> name[2] * 256 + SwitchSentinel]

\* JellyfishNodeID(dpid=...): lines 33-36.  (dpid & 0xff00) >> 8 and
\* dpid & 0xff.
FromDpid(dpid) ==
  [switch_id |-> (dpid \div 256) % 256, host_id |-> dpid % 256,
   dpid |-> dpid]

\* The set S with e added, as an enumerated set (a chain of unevaluated
\* unions would grow with every added node).
Insert(S, e) == {x \in S \cup {e} : TRUE}

\* `switch in link` for a link tuple.
InLink(switch, link) == switch = link[1] \/ switch = link[2]

\* The loop of count_links_with_switch over the distinct links S of the
\* bag, each counted with its copies.
RECURSIVE CountLoop(_, _, _)
CountLoop(switch, link_list, S) ==
  IF S = {} THEN 0
  ELSE LET link == CHOOSE x \in S : TRUE
       IN  (IF InLink(switch, link) THEN CopiesIn(link, link_list) ELSE 0)
             + CountLoop(switch, link_list, S \ {link})

\* count_links_with_switch(switch, link_list)
CountLinksWithSwitch(switch, link_list) ==
  CountLoop(switch, link_list, BagToSet(link_list))

\* A variant of NotFullyConnected that looks for the link in the orientation
\* (switch, switch2) only.
NotFullyConnectedOneWay(sl, link_list) ==
  \E i \in 1..Len(sl) : \E j \in (i + 1)..Len(sl) :
     ~BagIn(<<sl[i], sl[j]>>, link_list)

\* not_fully_connected(switch_list, link_list)
NotFullyConnected(sl, link_list) ==
  \E i \in 1..Len(sl) : \E j \in (i + 1)..Len(sl) :
     /\ ~BagIn(<<sl[i], sl[j]>>, link_list)
     /\ ~BagIn(<<sl[j], sl[i]>>, link_list)

\* switch_is_fully_connected(switch, links, switches)
SwitchIsFullyConnected(switch, links, sl) ==
  \A k \in 1..Len(sl) :
     sl[k] # switch =>
        ~(~BagIn(<<switch, sl[k]>>, links) \/ ~BagIn(<<sl[k], switch>>, links))

\* list.remove(x): drop the first occurrence of x.
RemoveFirst(s, x) ==
  LET hits == {i \in 1..Len(s) : s[i] = x}
  IN  IF hits = {} THEN s
      ELSE LET p == CHOOSE i \in hits : \A j \in hits : i <= j
           IN  SubSeq(s, 1, p - 1) \o SubSeq(s, p + 1, Len(s))

\* Topo.switches(): the switch names of the graph, in name order.  Every
\* switch name is "s%d" of an index (line 257, 268).  SortedRange gives the
\* names of S whose index lies in lo..hi, by ascending index (the range is
\* halved so that the evaluation depth stays logarithmic in its length).
RECURSIVE SortedRange(_, _, _)
SortedRange(S, lo, hi) ==
  IF lo > hi THEN << >>
  ELSE IF lo = hi
       THEN IF <<"s", lo>> \in S THEN << <<"s", lo>> >> ELSE << >>
       ELSE LET mid == (lo + hi) \div 2
            IN  SortedRange(S, lo, mid) \o SortedRange(S, mid + 1, hi)

SortedByIndex(S) ==
  IF S = {} THEN << >>
  ELSE LET indices == {x[2] : x \in S}
           top     == CHOOSE m \in indices : \A k \in indices : k <= m
       IN  SortedRange(S, 0, top)

Switches(gn, gs) == SortedByIndex({n \in gn : n \in gs})

-----------------------------------------------------------------------------
\* addHosts.  st is the loop state: switch_num, host_list and the graph;
\* created lists, in call order, every addHost and addSwitch call with the
\* identity id_gen built for it.
HostStart ==
  [switch_num |-> 1, host_list |-> << >>, nodes |-> {}, isSwitch |-> {},
   links |-> EmptyBag, created |-> << >>]

\* The cluster test of the host loop (line 256).
StartsCluster(num, hps) == num % hps = 0

\* Lines 257-265: a new switch takes every host of host_list.
AttachCluster(st) ==
  LET switch_id == NameStr(st.switch_num, SwitchSentinel)
  IN  [switch_num |-> st.switch_num + 1,
       host_list  |-> << >>,
       nodes      |-> Insert(st.nodes, switch_id),
       isSwitch   |-> Insert(st.isSwitch, switch_id),
       links      |-> st.links (+)
                        SetToBag({<<st.host_list[k], switch_id>> :
                                     k \in 1..Len(st.host_list)}),
       created    |-> Append(st.created,
                             [kind |-> "switch",
                              id |-> NodeID(st.switch_num, SwitchSentinel)])]

\* Lines 251-255: the host of index num is created and queued.
AddOneHost(st, num) ==
  LET host_id == NameStr(num + 1, num + 1)
  IN  [st EXCEPT !.nodes = Insert(@, host_id),
                 !.host_list = Append(@, host_id),
                 !.created = Append(@, [kind |-> "host",
                                        id |-> NodeID(num + 1, num + 1)])]

\* One iteration of the loop `for num in range(0, nodes)` (lines 251-265).
HostIteration(st, num, hps) ==
  LET st1 == AddOneHost(st, num)
  IN  IF StartsCluster(num, hps) THEN AttachCluster(st1) ELSE st1

\* The iterations num, num + 1, ..., n - 1 of that loop, in this order.  The
\* range is halved, and the second half starts from the value half of the
\* state the first half ends in (the only element of the set the second
\* half is mapped over), so that the evaluation depth stays logarithmic in n.
RECURSIVE HostLoop(_, _, _, _)
HostLoop(st, num, n, hps) ==
  IF num >= n THEN st
  ELSE IF n = num + 1 THEN HostIteration(st, num, hps)
  ELSE LET mid == (num + n) \div 2
       IN  CHOOSE end \in {HostLoop(half, mid, n, hps) :
                              half \in {HostLoop(st, num, mid, hps)}} : TRUE

\* The loop `for num in range(nodes / hosts_per_switch, switches)`.
ExtraSwitches(n, s, hps) ==
  {NameStr(num + 1, SwitchSentinel) : num \in (n \div hps)..(s - 1)}

AddHostsResult(s, n, pps, hps) ==
  LET st == HostLoop(HostStart, 0, n, hps)
      ex == ExtraSwitches(n, s, hps)
  IN  [nodes |-> st.nodes \cup ex, isSwitch |-> st.isSwitch \cup ex,
       links |-> st.links,
       created |-> {st.created[k] : k \in 1..Len(st.created)} \cup
                     {[kind |-> "switch", id |-> NodeID(num + 1, SwitchSentinel)] :
                         num \in (n \div hps)..(s - 1)}]

-----------------------------------------------------------------------------
Init ==
  /\ pc = "init"
  /\ switches \in 0..MaxSwitches
  /\ nodes \in 0..MaxNodes
  /\ ports_per_switch \in 0..MaxPorts
  /\ hosts_per_switch \in 0..MaxHps
  /\ g_nodes = {}
  /\ g_isSwitch = {}
  /\ g_links = EmptyBag
  /\ switch_list = << >>
  /\ added_links = EmptyBag
  /\ idx = 1
  /\ completed = TRUE

\* __init__ calls create_topology; lines 309-311.  With hosts_per_switch = 0
\* the modulo of line 256 (after the first host was added) or the division
\* of line 267 raises ZeroDivisionError.
AddHosts ==
  /\ pc = "init"
  /\ IF hosts_per_switch = 0
     THEN /\ g_nodes' = IF nodes > 0 THEN {NameStr(1, 1)} ELSE {}
          /\ pc' = "error"
          /\ UNCHANGED <<g_isSwitch, g_links, switch_list>>
     ELSE \E r \in {AddHostsResult(switches, nodes, ports_per_switch,
                                    hosts_per_switch)} :
              /\ g_nodes' = r.nodes
              /\ g_isSwitch' = r.isSwitch
              /\ g_links' = r.links
              /\ switch_list' = Switches(r.nodes, r.isSwitch)
              /\ pc' = "phase1"
  /\ UNCHANGED <<params, added_links, idx, completed>>

\* A variant of Phase1Continues that stops the loop at two candidates.
Phase1ContinuesAboveTwo ==
  Len(switch_list) > 2 /\ NotFullyConnected(switch_list, added_links)

\* The guard of the Phase 1 loop (line 312).
Phase1Continues ==
  Len(switch_list) > 1 /\ NotFullyConnected(switch_list, added_links)

\* Line 315: the two draws are the same switch.
SameSwitch(switch, switch2) == switch = switch2

\* A variant of AlreadyLinked that tests the orientation (switch, switch2)
\* only.
AlreadyLinkedOneWay(switch, switch2, links) ==
  BagIn(<<switch, switch2>>, links)

\* Line 318: the pair is already linked, in either orientation.
AlreadyLinked(switch, switch2, links) ==
  BagIn(<<switch, switch2>>, links) \/ BagIn(<<switch2, switch>>, links)

\* A variant of LeavesCandidates whose count test is `>` in place of `==`.
LeavesCandidatesAbove(switch, links, sl, pps) ==
  \/ CountLinksWithSwitch(switch, links) > pps
  \/ SwitchIsFullyConnected(switch, links, sl)

\* Lines 321-322 and 324-325: the endpoint leaves the candidate list.
LeavesCandidates(switch, links, sl, pps) ==
  \/ CountLinksWithSwitch(switch, links) = pps
  \/ SwitchIsFullyConnected(switch, links, sl)

\* One iteration of the Phase 1 loop (lines 312-326); i and j are the
\* positions the two random.choice calls pick.
Phase1Draw(i, j) ==
  /\ pc = "phase1"
  /\ Phase1Continues
  /\ i \in 1..Len(switch_list)
  /\ j \in 1..Len(switch_list)
  /\ LET switch  == switch_list[i]
         switch2 == switch_list[j]
         links1  == added_links (+) SetToBag({<<switch, switch2>>})
         sl1     == IF LeavesCandidates(switch, links1, switch_list,
                                        ports_per_switch)
                    THEN RemoveFirst(switch_list, switch) ELSE switch_list
         sl2     == IF LeavesCandidates(switch2, links1, sl1, ports_per_switch)
                    THEN RemoveFirst(sl1, switch2) ELSE sl1
     IN  IF SameSwitch(switch, switch2)
              \/ AlreadyLinked(switch, switch2, added_links)
         THEN UNCHANGED <<added_links, switch_list>>
         ELSE /\ added_links' = links1
              /\ switch_list' = sl2
  /\ UNCHANGED <<pc, params, graph, idx, completed>>

\* The Phase 1 loop ends; Phase 2 starts its first pass (lines 330-332).
Phase1Exit ==
  /\ pc = "phase1"
  /\ ~Phase1Continues
  /\ pc' = "phase2"
  /\ idx' = 1
  /\ completed' = TRUE
  /\ UNCHANGED <<params, graph, switch_list, added_links>>

\* UnderTarget with the target off by one: count < ports_per_switch.
UnderTargetOffByOne(count, pps) == count < pps

\* Line 335: the switch is under the Phase 2 target degree.
UnderTarget(count, pps) == count < pps - 1

\* TouchesLink with the test of the second endpoint left out.
TouchesLinkFirstOnly(switch, link) == switch = link[1]

\* Line 338: the drawn link touches the switch.
TouchesLink(switch, link) == switch = link[1] \/ switch = link[2]

\* Lines 340-344: remove the drawn link, add the two new links.
Rewire(switch, link, links) ==
  (links (-) SetToBag({link}))
     (+) SetToBag({<<switch, link[1]>>}) (+) SetToBag({<<switch, link[2]>>})

\* One iteration of `for switch in switch_list` (lines 332-336) that draws
\* no link: the switch is skipped as fully connected, or it is at its
\* target, or random.choice of an empty list raises IndexError.
Phase2Step ==
  /\ pc = "phase2"
  /\ idx <= Len(switch_list)
  /\ LET switch == switch_list[idx]
     IN  IF SwitchIsFullyConnected(switch, added_links, switch_list)
         THEN /\ idx' = idx + 1
              /\ UNCHANGED <<pc, completed>>
         ELSE IF UnderTarget(CountLinksWithSwitch(switch, added_links),
                             ports_per_switch)
         THEN /\ added_links = EmptyBag
              /\ pc' = "error"
              /\ completed' = FALSE
              /\ idx' = idx
         ELSE /\ idx' = idx + 1
              /\ UNCHANGED <<pc, completed>>
  /\ UNCHANGED <<params, graph, switch_list, added_links>>

\* One iteration of `for switch in switch_list` (lines 332-344) in which
\* random.choice(added_links) returns link.
Phase2Draw(link) ==
  /\ pc = "phase2"
  /\ idx <= Len(switch_list)
  /\ BagIn(link, added_links)
  /\ LET switch == switch_list[idx]
     IN  /\ ~SwitchIsFullyConnected(switch, added_links, switch_list)
         /\ UnderTarget(CountLinksWithSwitch(switch, added_links),
                        ports_per_switch)
         /\ completed' = FALSE
         /\ idx' = idx + 1
         /\ added_links' =
              IF TouchesLink(switch, link) THEN added_links
              ELSE Rewire(switch, link, added_links)
  /\ UNCHANGED <<pc, params, graph, switch_list>>

\* The end of a pass (lines 345-346, 330-331).
Phase2PassEnd ==
  /\ pc = "phase2"
  /\ idx > Len(switch_list)
  /\ IF completed
     THEN pc' = "materialize" /\ UNCHANGED <<idx, completed>>
     ELSE pc' = pc /\ idx' = 1 /\ completed' = TRUE
  /\ UNCHANGED <<params, graph, switch_list, added_links>>

\* Lines 348-349: every link of added_links goes into the graph.
Materialize ==
  /\ pc = "materialize"
  /\ g_links' = g_links (+) added_links
  /\ pc' = "done"
  /\ UNCHANGED <<params, g_nodes, g_isSwitch, switch_list, added_links,
                 idx, completed>>

Next ==
  \/ AddHosts
  \/ \E i, j \in 1..Len(switch_list) : Phase1Draw(i, j)
  \/ Phase1Exit
  \/ Phase2Step
  \/ \E link \in BagToSet(added_links) : Phase2Draw(link)
  \/ Phase2PassEnd
  \/ Materialize

Spec == Init /\ [][Next]_vars

\* The same call with up to WideSwitches switches.
InitWide ==
  /\ pc = "init"
  /\ switches \in 0..WideSwitches
  /\ nodes \in 0..MaxNodes
  /\ ports_per_switch \in 0..MaxPorts
  /\ hosts_per_switch \in 0..MaxHps
  /\ g_nodes = {}
  /\ g_isSwitch = {}
  /\ g_links = EmptyBag
  /\ switch_list = << >>
  /\ added_links = EmptyBag
  /\ idx = 1
  /\ completed = TRUE

SpecWide == InitWide /\ [][Next]_vars

\* The calls with up to IdNodes hosts, followed through addHosts, where
\* every node and every identity is created.
InitIds ==
  /\ pc = "init"
  /\ switches \in 0..MaxSwitches
  /\ nodes \in 0..IdNodes
  /\ ports_per_switch = MaxPorts
  /\ hosts_per_switch \in 1..MaxHps
  /\ g_nodes = {}
  /\ g_isSwitch = {}
  /\ g_links = EmptyBag
  /\ switch_list = << >>
  /\ added_links = EmptyBag
  /\ idx = 1
  /\ completed = TRUE

IdSpec == InitIds /\ [][AddHosts]_vars

\* Fair draws: the interpreter always runs the next statement, and a value
\* of random.choice that is possible again and again is eventually drawn.
MaxCandidates == IF MaxSwitches > MaxNodes THEN MaxSwitches ELSE MaxNodes
AllSwitchNames == {NameStr(k, SwitchSentinel) : k \in 1..MaxCandidates}

Fairness ==
  /\ WF_vars(AddHosts)
  /\ WF_vars(Phase1Exit)
  /\ WF_vars(Phase2Step)
  /\ WF_vars(Phase2PassEnd)
  /\ WF_vars(Materialize)
  /\ \A i, j \in 1..MaxCandidates : SF_vars(Phase1Draw(i, j))
  /\ \A a, b \in AllSwitchNames : SF_vars(Phase2Draw(<<a, b>>))

FairSpec == Spec /\ Fairness

\* Phase 1 alone: create_topology up to the end of the Phase 1 loop (lines
\* 309-326).  Its fair draws: while some pair of draws that adds a link is
\* possible again and again, such a pair is eventually drawn (the fairness
\* of FairSpec, strong fairness of every single pair of draws, implies it).
Phase1Next ==
  \/ AddHosts
  \/ \E i, j \in 1..Len(switch_list) : Phase1Draw(i, j)
  \/ Phase1Exit

Phase1Fairness ==
  /\ WF_vars(AddHosts)
  /\ WF_vars(Phase1Exit)
  /\ SF_vars(\E i, j \in 1..Len(switch_list) : Phase1Draw(i, j))

\* Phase 1 reads the switch list and ports_per_switch only; with one host
\* per switch, nodes and switches give every switch list s1, ..., sk that
\* addHosts can build within the bounds.
InitPhase1 == Init /\ hosts_per_switch = 1

Phase1Spec == InitPhase1 /\ [][Phase1Next]_vars /\ Phase1Fairness

-----------------------------------------------------------------------------
\* State functions the properties are written with.

\* The nodes addHosts has created, each with the identity id_gen built.
Created ==
  IF pc \in {"init", "error"} THEN {}
  ELSE AddHostsResult(switches, nodes, ports_per_switch,
                      hosts_per_switch).created

\* The parameters leave every switch at least one free port.
Feasible == hosts_per_switch >= 1 /\ ports_per_switch > hosts_per_switch

SwitchNames == g_isSwitch
HostNames == g_nodes \ g_isSwitch

\* The number of host links of the graph at switch s.
HostsAttached(s) ==
  Cardinality({l \in BagToSet(g_links) : l[1] \in HostNames /\ l[2] = s})

\* The inter-switch degree of s in the working edge collection.
Degree(s) == CountLinksWithSwitch(s, added_links)

\* s has a link (either orientation) to every other switch.
AdjacentToAll(s) ==
  \A t \in SwitchNames \ {s} :
     BagIn(<<s, t>>, added_links) \/ BagIn(<<t, s>>, added_links)

\* The number of graph links on the unordered pair {a, b}.
PairCopies(a, b) ==
  IF a = b THEN CopiesIn(<<a, a>>, g_links)
  ELSE CopiesIn(<<a, b>>, g_links) + CopiesIn(<<b, a>>, g_links)

\* The members of the candidate list.
Candidates == {switch_list[k] : k \in 1..Len(switch_list)}

\* The switches that share a link of links (either orientation) with s.
Neighbors(s, links) ==
  {t \in SwitchNames \ {s} :
      BagIn(<<s, t>>, links) \/ BagIn(<<t, s>>, links)}

\* The number of links of links on the unordered pair {a, b}.
LinksOnPair(a, b, links) ==
  IF a = b THEN CopiesIn(<<a, a>>, links)
  ELSE CopiesIn(<<a, b>>, links) + CopiesIn(<<b, a>>, links)

\* The links a switch can be part of.
SwitchPairs == SwitchNames \X SwitchNames

-----------------------------------------------------------------------------
\* C2 to C6 are stated for the feasible parameters, those the boundary
\* check of C9 lets through.

\* C1: for every parameter set with at least 2 switches and
\* ports_per_switch > hosts_per_switch, under fair draws create_topology
\* terminates: the Phase 1 loop and the Phase 2 loop reach their exit (a
\* call that ends by raising counts as ended).
C1_Terminates ==
  (switches >= 2 /\ ports_per_switch > hosts_per_switch)
     => <>(pc \in {"done", "error"})

\* C2: in the edges materialized into the graph no unordered pair of
\* switches appears more than once, in either orientation.
C2_NoDuplicateEdge ==
  (pc = "done" /\ Feasible) =>
     \A a, b \in SwitchNames : PairCopies(a, b) <= 1

\* C3: at every point of construction and in the final graph, the
\* inter-switch degree of each switch is at most ports_per_switch minus
\* the number of hosts attached to it.
C3_DegreeWithinBudget ==
  (pc \in {"phase1", "phase2", "materialize", "done"} /\ Feasible) =>
     \A s \in SwitchNames : Degree(s) <= ports_per_switch - HostsAttached(s)

\* C4: when create_topology finishes, every switch has inter-switch degree
\* equal to its free-port budget or is adjacent to every other switch.
C4_BudgetExhaustedOrComplete ==
  (pc = "done" /\ Feasible) =>
     \A s \in SwitchNames :
        \/ Degree(s) = ports_per_switch - HostsAttached(s)
        \/ AdjacentToAll(s)

\* C5: after Phase 2 ends, every switch of the topology that is not
\* adjacent to all other switches has inter-switch degree at least
\* ports_per_switch - 1.
C5_RepairedDegree ==
  (pc \in {"materialize", "done"} /\ Feasible) =>
     \A s \in SwitchNames :
        ~AdjacentToAll(s) => Degree(s) >= ports_per_switch - 1

\* C6: after construction every host that addHosts created has exactly one
\* edge, and that edge goes to a switch.
C6_HostHasOneEdge ==
  (pc = "done" /\ Feasible) =>
     \A h \in HostNames :
        /\ CountLinksWithSwitch(h, g_links) = 1
        /\ \A l \in BagToSet(g_links) :
              InLink(h, l) => (l[1] \in SwitchNames \/ l[2] \in SwitchNames)

\* C7: no edge of the builder's edge collection, and no edge of the graph,
\* joins a node to itself, in any reachable state.
C7_NoSelfLoop ==
  \A l \in BagToSet(added_links) \cup BagToSet(g_links) : l[1] # l[2]

\* C7 witness: construction has finished after Phase 2 rewired some link
\* (a rewiring is the only way a pair of switches gets a second link).
C7_Witness ==
  /\ pc = "done"
  /\ \E a, b \in SwitchNames : a # b /\ PairCopies(a, b) >= 2

\* C8: when every switch carries one host and the free-port budget equals
\* the number of other switches (hosts_per_switch = 1, nodes = switches =
\* ports_per_switch), construction ends with each switch having exactly one
\* host and the switches forming the complete graph with no extra edge.
C8_CompleteGraph ==
  (/\ pc = "done"
   /\ hosts_per_switch = 1
   /\ nodes = switches
   /\ ports_per_switch = switches) =>
     /\ Cardinality(SwitchNames) = switches
     /\ \A s \in SwitchNames :
           /\ HostsAttached(s) = 1
           /\ CountLinksWithSwitch(s, g_links) - HostsAttached(s)
                 = switches - 1
     /\ \A a, b \in SwitchNames :
           PairCopies(a, b) = IF a = b THEN 0 ELSE 1

\* C8 witness: the case has been constructed with the largest switch count.
C8_Witness ==
  /\ pc = "done"
  /\ hosts_per_switch = 1
  /\ nodes = switches
  /\ ports_per_switch = switches
  /\ switches = MaxSwitches
  /\ \A s \in SwitchNames : Degree(s) = switches - 1

\* C9: parameters with ports_per_switch - hosts_per_switch <= 0 are rejected
\* before construction starts: no node is created and no edge is added
\* (stated for hosts_per_switch >= 1, where addHosts itself cannot raise).
C9_RejectedBeforeConstruction ==
  (hosts_per_switch >= 1 /\ ports_per_switch - hosts_per_switch <= 0) =>
     /\ pc # "done"
     /\ g_nodes = {}
     /\ g_links = EmptyBag
     /\ added_links = EmptyBag

\* C11: across all nodes construction creates, textual identifiers are
\* unique: no two created nodes (two hosts, two switches, or a host and a
\* switch) have the same identifier string.
C11_UniqueIdentifiers ==
  \A x, y \in Created :
     x # y => NameStr(x.id.switch_id, x.id.host_id)
                 # NameStr(y.id.switch_id, y.id.host_id)

\* C12: for every identity construction creates, parsing its textual
\* identifier yields an identity with the same switch_id, host_id and dpid.
C12_NameRoundTrip ==
  \A x \in Created :
     FromName(NameStr(x.id.switch_id, x.id.host_id)) = x.id

\* C12 witness: addHosts has created the host of index 255, whose name is
\* the switch form, a switch, and hosts and switches of index above 255.
C12_Witness ==
  /\ pc = "phase1"
  /\ [kind |-> "host", id |-> NodeID(SwitchSentinel, SwitchSentinel)]
        \in Created
  /\ \E x \in Created : x.kind = "switch" /\ x.id.switch_id > SwitchSentinel
  /\ \E x \in Created : x.kind = "host" /\ x.id.host_id > SwitchSentinel

\* C13: for every identity construction creates, decoding its dpid yields
\* the same switch_id and host_id, indices of 256 and above included.
C13_DpidRoundTrip ==
  \A x \in Created :
     /\ FromDpid(x.id.dpid).switch_id = x.id.switch_id
     /\ FromDpid(x.id.dpid).host_id = x.id.host_id

\* C14: after addHosts, host index i (0-based) is attached to the switch of
\* cluster floor(i / hosts_per_switch), and when switches exceeds the number
\* of clusters exactly `switches` distinct switches exist.
C14_HostGrouping ==
  (pc \notin {"init", "error"} /\ Feasible) =>
     /\ \A i \in 0..(nodes - 1) :
           BagIn(<<NameStr(i + 1, i + 1),
                   NameStr((i \div hosts_per_switch) + 1, SwitchSentinel)>>,
                 g_links)
     /\ (switches > (nodes + hosts_per_switch - 1) \div hosts_per_switch =>
           Cardinality(SwitchNames) = switches)

\* C15: in Phase 1, after a step that adds an edge, an endpoint of the new
\* edge whose edge count has reached its free-port budget is no longer a
\* candidate, and no candidate with another candidate left is adjacent to
\* all other candidates.
C15_Phase1Removal ==
  [][(pc = "phase1" /\ Feasible /\ added_links' # added_links) =>
       \A s \in Candidates' :
          /\ (\E t \in SwitchNames : BagIn(<<s, t>>, added_links')
                                        /\ ~BagIn(<<s, t>>, added_links))
                \/ (\E t \in SwitchNames : BagIn(<<t, s>>, added_links')
                                        /\ ~BagIn(<<t, s>>, added_links))
               => CountLinksWithSwitch(s, added_links')
                     < ports_per_switch - HostsAttached(s)
          /\ Candidates' \ {s} # {}
               => ~(Candidates' \ {s} \subseteq Neighbors(s, added_links'))
    ]_vars

\* C16: a Phase 2 rewiring for the switch s and the drawn edge (a, b) leaves
\* the degree of a and of b unchanged, with a losing the neighbor b and
\* gaining the new neighbor s (and b likewise), raises the degree of s by
\* two, and leaves the edges of every other switch unchanged.
C16_RewiringFrame ==
  [][(pc = "phase2" /\ Feasible /\ added_links' # added_links) =>
       \E link \in BagToSet(added_links) :
          LET s == switch_list[idx]
              a == link[1]
              b == link[2]
          IN  /\ added_links' = Rewire(s, link, added_links)
              /\ CountLinksWithSwitch(a, added_links')
                    = CountLinksWithSwitch(a, added_links)
              /\ CountLinksWithSwitch(b, added_links')
                    = CountLinksWithSwitch(b, added_links)
              /\ CountLinksWithSwitch(s, added_links')
                    = CountLinksWithSwitch(s, added_links) + 2
              /\ s \notin Neighbors(a, added_links)
              /\ s \notin Neighbors(b, added_links)
              /\ Neighbors(a, added_links')
                    = (Neighbors(a, added_links) \ {b}) \cup {s}
              /\ Neighbors(b, added_links')
                    = (Neighbors(b, added_links) \ {a}) \cup {s}
              /\ \A l \in SwitchPairs :
                    (\E t \in SwitchNames \ {s, a, b} : InLink(t, l))
                       => CopiesIn(l, added_links') = CopiesIn(l, added_links)
    ]_vars

\* C17: throughout Phase 1 the edge set holds at most one edge per unordered
\* pair of switches, and a Phase 1 draw of two equal candidates, or of a
\* pair already connected in either orientation, leaves the edge set and the
\* candidate set unchanged.
C17_OneEdgePerPair ==
  [][/\ pc' = "phase1" =>
          \A a, b \in SwitchNames' : LinksOnPair(a, b, added_links') <= 1
     /\ \A i, j \in 1..Len(switch_list) :
          (/\ Phase1Draw(i, j)
           /\ \/ switch_list[i] = switch_list[j]
              \/ LinksOnPair(switch_list[i], switch_list[j], added_links) > 0)
             => UNCHANGED <<added_links, switch_list>>
    ]_vars

\* C17 witness: Phase 1 continues in a state where two candidates are
\* already connected, in the orientation opposite to the draw (i, j).
C17_Witness ==
  /\ pc = "phase1"
  /\ Phase1Continues
  /\ \E i, j \in 1..Len(switch_list) :
        i # j /\ BagIn(<<switch_list[j], switch_list[i]>>, added_links)

\* C18: Phase 1 cannot stall: whenever more than one candidate is left and
\* two distinct candidates are not connected, some draw of two candidates
\* adds a new edge; Phase 1 holds at most S(S-1)/2 edges, S the number of
\* switches; and under fair draws Phase 1 ends, with at most one candidate
\* left or with all remaining candidates pairwise connected.
C18_Phase1Ends ==
  /\ [](pc = "phase1" =>
          /\ (Cardinality(Candidates) > 1
               /\ \E a, b \in Candidates :
                     a # b /\ LinksOnPair(a, b, added_links) = 0)
                => \E i, j \in 1..Len(switch_list) :
                      /\ switch_list[i] # switch_list[j]
                      /\ ENABLED <<Phase1Draw(i, j)>>_vars
          /\ 2 * BagCardinality(added_links)
                <= Cardinality(SwitchNames) * (Cardinality(SwitchNames) - 1))
  /\ (pc = "phase1" ~>
        (/\ pc = "phase2"
         /\ \/ Cardinality(Candidates) <= 1
            \/ \A a, b \in Candidates :
                  a # b => LinksOnPair(a, b, added_links) > 0))

\* C18 witness: Phase 1 has ended with more than one candidate left, all of
\* them pairwise connected.
C18_Witness ==
  /\ pc = "phase2"
  /\ Cardinality(Candidates) > 1
  /\ \A a, b \in Candidates : a # b => LinksOnPair(a, b, added_links) > 0

\* C19: for ports_per_switch >= 1, in every state of Phase 1 and Phase 2 the
\* number of edges of the edge set incident to a switch (parallel edges
\* counted separately) is at most ports_per_switch, and in Phase 1 every
\* candidate has strictly fewer than ports_per_switch incident edges.
C19_EdgesWithinPorts ==
  (ports_per_switch >= 1 /\ pc \in {"phase1", "phase2"}) =>
     /\ \A s \in SwitchNames : Degree(s) <= ports_per_switch
     /\ pc = "phase1" => \A s \in Candidates : Degree(s) < ports_per_switch

\* C19 witness: Phase 2 has rewired: a switch with a parallel edge holds
\* exactly ports_per_switch incident edges; and Phase 1 had dropped no
\* candidate, so every switch went through Phase 1 as a candidate.
C19_Witness ==
  /\ ports_per_switch >= 1
  /\ pc = "phase2"
  /\ Candidates = SwitchNames
  /\ \E s \in SwitchNames :
        /\ Degree(s) = ports_per_switch
        /\ \E t \in SwitchNames : LinksOnPair(s, t, added_links) > 1

\* C20: whenever the Phase 2 loop is at a candidate switch that is not
\* skipped as fully connected and is under ports_per_switch - 1, the edge
\* set holds at least one edge.
C20_DrawFromNonEmpty ==
  (/\ pc = "phase2"
   /\ idx <= Len(switch_list)
   /\ ~SwitchIsFullyConnected(switch_list[idx], added_links, switch_list)
   /\ CountLinksWithSwitch(switch_list[idx], added_links)
         < ports_per_switch - 1)
     => BagCardinality(added_links) >= 1

\* C20 witness: the Phase 2 loop is at such a switch, about to draw, and
\* the call has at least two switches.
C20_Witness ==
  /\ pc = "phase2"
  /\ idx <= Len(switch_list)
  /\ Cardinality(SwitchNames) >= 2
  /\ ~SwitchIsFullyConnected(switch_list[idx], added_links, switch_list)
  /\ CountLinksWithSwitch(switch_list[idx], added_links)
        < ports_per_switch - 1
  /\ BagCardinality(added_links) >= 1

=============================================================================
